---- MODULE Spec2Model ----
(***************************************************************************)
(* Model of the "AI at marketing services" Streamlit page                  *)
(* (src/pages/D02_Marketing_services.py) and of the session it shares      *)
(* with the other pages of the portal.                                     *)
(*                                                                         *)
(* A Streamlit page is a script that is executed from top to bottom once   *)
(* per user interaction.  One action of this model is one such script run: *)
(* it reads the widget values of the interaction, runs the whole script    *)
(* against the session state and leaves the new session state and the      *)
(* elements rendered by that run.                                          *)
(***************************************************************************)
EXTENDS Integers, Sequences, FiniteSets, TLC

\* ------------------------------------------------------------------ bounds
MaxCalls == 2        \* completion calls (get_ai_response) per session
MaxTok   == 1        \* largest usage.total_tokens the service reports
MaxParts == 1        \* pages of a PDF / paragraphs of a DOCX

\* ------------------------------------------------------------------ values
None == "None"                       \* Python's None as a response

Fields == {"", "x"}                  \* a text_input / text_area value
Texts  == {"r1"}                     \* message.content of a completion
NumPoints == {3, 10}                 \* number_input(min_value=3, max_value=10)

PDF  == "application/pdf"
DOCX == "application/vnd.openxmlformats-officedocument.wordprocessingml.document"
MD   == "text/markdown"
TXT  == "text/plain"
OCTET == "application/octet-stream"  \* any media type the page does not know

Supported == {PDF, DOCX, MD, TXT}

\* the text of one PDF page or DOCX paragraph, as characters
Pieces == {<<"a">>}

\* the decoded content of a Markdown or plain-text file
Bodies == {<<>>, <<"a">>}

RECURSIVE SeqsUpTo(_, _)
SeqsUpTo(S, n) ==
    IF n = 0 THEN {<<>>}
    ELSE LET shorter == SeqsUpTo(S, n - 1)
         IN  shorter \cup {Append(q, x) : q \in shorter, x \in S}

\* an uploaded file: declared media type, payload parts, and whether the
\* payload is a well-formed document of that type
Docs ==
    {[type |-> t, parts |-> p, wellformed |-> TRUE] :
        t \in {PDF, DOCX}, p \in SeqsUpTo(Pieces, MaxParts)}
    \cup {[type |-> t, parts |-> <<p>>, wellformed |-> TRUE] :
        t \in {MD, TXT}, p \in Bodies}
    \cup {[type |-> OCTET, parts |-> <<>>, wellformed |-> TRUE]}
    \cup {[type |-> t, parts |-> <<>>, wellformed |-> FALSE] : t \in Supported}

\* the uploader holds no file (file_uploader returns None)
NoFile == [type |-> "", parts |-> <<>>, wellformed |-> TRUE]

\* what the completion service answers to one request: a completion with
\* its usage, or an error (which is also what a run that asks nothing gets)
NoOutcome == [ok |-> FALSE, text |-> None, tokens |-> 0]

Outcomes ==
    {[ok |-> TRUE, text |-> x, tokens |-> n] : x \in Texts, n \in 1..MaxTok}
    \cup {NoOutcome}

VARIABLES
    secret,         \* st.secrets["openai"]["api_key"] exists
    api_key,        \* "api_key" in st.session_state
    client_defined, \* the last run constructed the API client (line 28)
    chat_history,   \* st.session_state.chat_history
    total_tokens,   \* st.session_state.total_tokens
    context,        \* st.session_state.context
    page,           \* the page the browser shows
    uploaded_file,  \* value of the file_uploader widget
    widgets,        \* the uploader and the buttons rendered by the last run
    rendered,       \* notices and result blocks rendered by the last run
    calls,          \* get_ai_response calls of the last run, with results
    crashed,        \* the last run ended in an uncaught exception
    displayed,      \* expanders rendered by display_chat_history
    history_seen,   \* the log as display_chat_history found it
    token_metric,   \* value rendered by display_token_usage
    pressed,        \* the button reported pressed in the last run
    form,           \* the text fields of the last run
    ledger,         \* sum of the token counts returned by all calls
    last_extracted, \* text returned by the session's latest extraction
    n_calls         \* number of get_ai_response calls of the session

vars == <<secret, api_key, client_defined, chat_history, total_tokens,
          context, page, uploaded_file, widgets, rendered, calls, crashed,
          displayed, history_seen, token_metric, pressed, form, ledger,
          last_extracted, n_calls>>

NoForm == [num_points |-> 5, target_audience |-> "", content_prompt |-> "",
           content_to_localize |-> "", target_locale |-> "",
           target_culture |-> ""]

\* the fields the user has filled in when pressing each button (a field
\* that the pressed button's block does not read is left at its default)
KeyPointForms == {[NoForm EXCEPT !.num_points = n] : n \in NumPoints}

GenerateForms ==
    {[NoForm EXCEPT !.target_audience = a, !.content_prompt = p] :
        a \in Fields, p \in Fields}

LocalizeForms ==
    {[NoForm EXCEPT !.content_to_localize = c, !.target_locale = l,
                    !.target_culture = u] :
        c \in Fields, l \in Fields, u \in Fields}

\* ------------------------------------------------------------ pure helpers
RECURSIVE Reverse(_)
Reverse(q) == IF q = <<>> THEN <<>> ELSE Append(Reverse(Tail(q)), Head(q))

RECURSIVE Concat(_)
Concat(qs) == IF qs = <<>> THEN <<>> ELSE Head(qs) \o Concat(Tail(qs))

IsPrefix(p, q) == Len(p) <= Len(q) /\ SubSeq(q, 1, Len(p)) = p

\* datetime.now().strftime("%Y-%m-%d %H:%M:%S"): a string of this format;
\* the page never reads a timestamp back, so its value is left abstract
Timestamp == "%Y-%m-%d %H:%M:%S"

\* ----------------------------------------------------- text extraction
extract_text_from_pdf(file) == Concat(file.parts)

extract_text_from_docx(file) ==
    Concat([i \in 1..Len(file.parts) |-> Append(file.parts[i], "\n")])

\* markdown.markdown(content): a paragraph of plain characters
markdown(content) ==
    IF content = <<>> THEN <<>>
    ELSE <<"<", "p", ">">> \o content \o <<"<", "/", "p", ">">>

\* index of the first ">" at or after position i of h, 0 if there is none
\* before the next "<"
RECURSIVE TagEnd(_, _)
TagEnd(h, i) ==
    IF i > Len(h) \/ h[i] = "<" THEN 0
    ELSE IF h[i] = ">" THEN i
    ELSE TagEnd(h, i + 1)

\* re.sub('<[^<]+?>', '', html)
RECURSIVE StripTags(_)
StripTags(h) ==
    IF h = <<>> THEN <<>>
    ELSE IF Head(h) = "<" /\ Len(h) >= 3 /\ h[2] # "<" /\ TagEnd(h, 3) # 0
         THEN StripTags(SubSeq(h, TagEnd(h, 3) + 1, Len(h)))
         ELSE <<Head(h)>> \o StripTags(Tail(h))

extract_text_from_md(file) == StripTags(markdown(file.parts[1]))

extract_text_from_txt(file) == file.parts[1]

\* ------------------------------------------------------- completion client
\* A prompt is the f-string's template with the values it interpolates.
\* One run of the script works on a record r: the session state
\* (api_key, chat_history, total_tokens, context), what the run has rendered
\* so far (rendered, widgets), the texts its extraction functions have
\* returned (extracted), the completion calls it has made (calls) and
\* whether an uncaught exception has ended it (crashed).

Render(r, kind, body) == [r EXCEPT !.rendered = Append(@, <<kind, body>>)]

\* get_ai_response without its except clause: the error leaves the function
get_ai_response_raising(r, prompt, client, out) ==
    IF client /\ out.ok
    THEN [response |-> out.text, tokens |-> out.tokens,
          run |-> [r EXCEPT !.calls = Append(@, [prompt |-> prompt,
                       failed |-> FALSE,
                       response |-> out.text, tokens |-> out.tokens])]]
    ELSE [response |-> None, tokens |-> 0,
          run |-> [r EXCEPT !.crashed = TRUE,
                       !.calls = Append(@, [prompt |-> prompt,
                       failed |-> TRUE,
                       response |-> None, tokens |-> 0])]]

\* get_ai_response(prompt, ...): the response, the tokens and the run after it.
\* `client` is whether this run constructed the API client (line 28); without
\* it the name lookup raises inside the try block.  `out` is the service's
\* answer to the request.
\* Each call is noted in r.calls: its prompt, whether the request failed, and
\* what the function returned.
get_ai_response(r, prompt, client, out) ==
    IF client /\ out.ok
    THEN [response |-> out.text, tokens |-> out.tokens,
          run |-> [r EXCEPT !.calls = Append(@, [prompt |-> prompt,
                       failed |-> FALSE,
                       response |-> out.text, tokens |-> out.tokens])]]
    ELSE [response |-> None, tokens |-> 0,
          run |-> [Render(r, "error", "An error occurred") EXCEPT
                       !.calls = Append(@, [prompt |-> prompt,
                       failed |-> TRUE,
                       response |-> None, tokens |-> 0])]]

\* get_key_points without line 80: the tokens of the call are not added
get_key_points_untracked(r, text, num_points, client, out) ==
    LET prompt == [template |-> "Extract {num_points} key points",
                   num_points |-> num_points, text |-> text,
                   fields |-> <<>>]
        a == get_ai_response(r, prompt, client, out)
    IN  [response |-> a.response, run |-> a.run]

\* get_key_points(text, num_points)
get_key_points(r, text, num_points, client, out) ==
    LET prompt == [template |-> "Extract {num_points} key points",
                   num_points |-> num_points, text |-> text,
                   fields |-> <<>>]
        a == get_ai_response(r, prompt, client, out)
    IN  IF a.run.crashed THEN [response |-> None, run |-> a.run]
        ELSE [response |-> a.response,
              run |-> [a.run EXCEPT !.total_tokens = @ + a.tokens]]

\* generate_content(context, prompt, target_audience)
generate_content(r, ctx, prompt, target_audience, client, out) ==
    LET full_prompt == [template |-> "Generate creative marketing content",
                        num_points |-> 0, text |-> ctx,
                        fields |-> <<target_audience, prompt>>]
        a == get_ai_response(r, full_prompt, client, out)
    IN  IF a.run.crashed THEN [response |-> None, run |-> a.run]
        ELSE [response |-> a.response,
              run |-> [a.run EXCEPT !.total_tokens = @ + a.tokens]]

\* localize_content(content, target_locale, target_culture)
localize_content(r, content, target_locale, target_culture, client, out) ==
    LET prompt == [template |-> "Adapt the given content",
                   num_points |-> 0, text |-> <<>>,
                   fields |-> <<content, target_locale, target_culture>>]
        a == get_ai_response(r, prompt, client, out)
    IN  IF a.run.crashed THEN [response |-> None, run |-> a.run]
        ELSE [response |-> a.response,
              run |-> [a.run EXCEPT !.total_tokens = @ + a.tokens]]

\* ------------------------------------------------------------------- main
\* the branch on uploaded_file.type, lines 118-128
extract(file) ==
    IF file.type = PDF THEN extract_text_from_pdf(file)
    ELSE IF file.type = DOCX THEN extract_text_from_docx(file)
    ELSE IF file.type = MD THEN extract_text_from_md(file)
    ELSE extract_text_from_txt(file)

\* line 130, `st.session_state.context = text`, for the text an extraction
\* function has returned to lines 118-124
set_context(r, text) ==
    [r EXCEPT !.extracted = Append(@, text), !.context = text]

\* the upload block storing the text only while no context is stored yet
\* (`if not st.session_state.context:` before line 130)
UploadBlock_keep_context(r, in, client) ==
    LET r0 == [r EXCEPT !.widgets = @ \cup {"file_uploader"}]
    IN
    IF in.file = NoFile THEN [returned |-> FALSE, run |-> r0]
    ELSE IF in.file.type \notin Supported
    THEN [returned |-> TRUE,
          run |-> Render(r0, "error", "Unsupported file type")]
    ELSE IF ~in.file.wellformed
    THEN [returned |-> TRUE, run |-> [r0 EXCEPT !.crashed = TRUE]]
    ELSE [returned |-> FALSE,
          run |-> [Render(r0, "success", "Document uploaded") EXCEPT
                       !.extracted = Append(@, extract(in.file)),
                       !.context = IF @ = <<>> THEN extract(in.file) ELSE @,
                       !.widgets = @ \cup {"Extract Key Points"}]]

\* the upload block with the `return` of line 128 missing: after the notice
\* the run goes on with the rest of main
UploadBlock_no_return(r, in, client) ==
    LET r0 == [r EXCEPT !.widgets = @ \cup {"file_uploader"}]
    IN
    IF in.file = NoFile THEN [returned |-> FALSE, run |-> r0]
    ELSE IF in.file.type \notin Supported
    THEN [returned |-> FALSE,
          run |-> Render(r0, "error", "Unsupported file type")]
    ELSE IF ~in.file.wellformed
    THEN [returned |-> TRUE, run |-> [r0 EXCEPT !.crashed = TRUE]]
    ELSE [returned |-> FALSE,
          run |-> [Render(r0, "success", "Document uploaded") EXCEPT
                       !.extracted = Append(@, extract(in.file)),
                       !.context = extract(in.file),
                       !.widgets = @ \cup {"Extract Key Points"}]]

\* the document upload block of main, lines 116-138; `returned` tells main
\* that the block executed `return`
UploadBlock(r, in, client) ==
    LET r0 == [r EXCEPT !.widgets = @ \cup {"file_uploader"}]
    IN
    IF in.file = NoFile THEN [returned |-> FALSE, run |-> r0]
    ELSE IF in.file.type \notin Supported
    THEN [returned |-> TRUE,
          run |-> Render(r0, "error", "Unsupported file type")]
    ELSE IF ~in.file.wellformed
    THEN [returned |-> TRUE, run |-> [r0 EXCEPT !.crashed = TRUE]]
    ELSE LET text == extract(in.file)
             r1 == [set_context(Render(r0, "success", "Document uploaded"),
                                text) EXCEPT
                        !.widgets = @ \cup {"Extract Key Points"}]
         IN  IF in.pressed = "Extract Key Points"
             THEN LET k == get_key_points(r1, text, in.form.num_points,
                                          client, in.out)
                  IN  [returned |-> k.run.crashed,
                       run |-> IF k.run.crashed THEN k.run
                               ELSE Render(Render(k.run, "subheader",
                                       "Key Points:"), "write", k.response)]
             ELSE [returned |-> FALSE, run |-> r1]

\* the Generate Content block putting its record at the head of the log
\* (chat_history.insert(0, ...) for chat_history.append(...))
GenerateBlock_prepend(r, in, client) ==
    LET r1 == [r EXCEPT !.widgets = @ \cup {"Generate Content"}]
    IN  IF in.pressed = "Generate Content" /\ in.form.content_prompt # ""
        THEN LET g == generate_content(r1, r1.context,
                          in.form.content_prompt, in.form.target_audience,
                          client, in.out)
             IN  [Render(Render(g.run, "subheader",
                      "Generated Content:"), "write", g.response)
                  EXCEPT !.chat_history =
                      <<[timestamp |-> Timestamp,
                         type |-> "content_generation",
                         prompt |-> in.form.content_prompt,
                         result |-> g.response]>> \o @]
        ELSE r1

\* the Generate Content block of main, lines 153-166
GenerateBlock(r, in, client) ==
    LET r1 == [r EXCEPT !.widgets = @ \cup {"Generate Content"}]
    IN  IF in.pressed = "Generate Content" /\ in.form.content_prompt # ""
        THEN LET g == generate_content(r1, r1.context,
                          in.form.content_prompt, in.form.target_audience,
                          client, in.out)
             IN  IF g.run.crashed THEN g.run
                 ELSE [Render(Render(g.run, "subheader",
                           "Generated Content:"), "write", g.response)
                       EXCEPT !.chat_history = Append(@,
                           [timestamp |-> Timestamp,
                            type |-> "content_generation",
                            prompt |-> in.form.content_prompt,
                            result |-> g.response])]
        ELSE r1

\* the Localize Content block testing the content alone
\* (`if content_to_localize:`)
LocalizeBlock_content_only(r, in, client) ==
    LET r1 == [r EXCEPT !.widgets = @ \cup {"Localize Content"}]
    IN  IF in.pressed = "Localize Content"
           /\ in.form.content_to_localize # ""
        THEN LET l == localize_content(r1, in.form.content_to_localize,
                          in.form.target_locale, in.form.target_culture,
                          client, in.out)
             IN  [Render(Render(l.run, "subheader",
                      "Localized Content:"), "write", l.response)
                  EXCEPT !.chat_history = Append(@,
                      [timestamp |-> Timestamp,
                       type |-> "content_localization",
                       original |-> in.form.content_to_localize,
                       locale |-> in.form.target_locale,
                       culture |-> in.form.target_culture,
                       result |-> l.response])]
        ELSE r1

\* the Localize Content block of main, lines 178-194
LocalizeBlock(r, in, client) ==
    LET r1 == [r EXCEPT !.widgets = @ \cup {"Localize Content"}]
    IN  IF in.pressed = "Localize Content"
           /\ in.form.content_to_localize # ""
           /\ in.form.target_locale # "" /\ in.form.target_culture # ""
        THEN LET l == localize_content(r1, in.form.content_to_localize,
                          in.form.target_locale, in.form.target_culture,
                          client, in.out)
             IN  IF l.run.crashed THEN l.run
                 ELSE [Render(Render(l.run, "subheader",
                           "Localized Content:"), "write", l.response)
                       EXCEPT !.chat_history = Append(@,
                           [timestamp |-> Timestamp,
                            type |-> "content_localization",
                            original |-> in.form.content_to_localize,
                            locale |-> in.form.target_locale,
                            culture |-> in.form.target_culture,
                            result |-> l.response])]
        ELSE r1

main(r, in, client) ==
    LET u == UploadBlock(r, in, client)
    IN  IF u.returned THEN u.run
        ELSE LET g == GenerateBlock(u.run, in, client)
             IN  IF g.crashed THEN g ELSE LocalizeBlock(g, in, client)

\* display_chat_history(): one expander per record, newest first
Expander(item) ==
    IF item.type = "content_generation"
    THEN [title |-> <<item.type, item.timestamp>>,
          lines |-> <<item.prompt, item.result>>]
    ELSE [title |-> <<item.type, item.timestamp>>,
          lines |-> <<item.original, item.locale, item.culture,
                      item.result>>]

\* display_chat_history reversing the log in place
\* (chat_history.reverse() for reversed(chat_history))
display_chat_history_inplace(r) ==
    LET shown == Reverse(r.chat_history)
    IN  [r EXCEPT !.history_seen = r.chat_history,
                  !.chat_history = shown,
                  !.displayed = [i \in 1..Len(shown) |-> Expander(shown[i])]]

display_chat_history(r) ==
    LET shown == Reverse(r.chat_history)
    IN  [r EXCEPT !.history_seen = r.chat_history,
                  !.displayed = [i \in 1..Len(shown) |-> Expander(shown[i])]]

\* display_token_usage()
display_token_usage(r) == [r EXCEPT !.token_metric = r.total_tokens]

\* the script constructing the client in the branch that stores the key
\* (lines 27-28 under the `if` of line 24 instead of its `else`)
Script_client_with_key_load(r, in) ==
    IF ~r.api_key /\ ~secret THEN [r EXCEPT !.crashed = TRUE]
    ELSE LET has_client == ~r.api_key
             r0 == [r EXCEPT !.api_key = TRUE, !.client = has_client]
             m  == main(r0, in, has_client)
             d  == IF m.crashed THEN m ELSE display_chat_history(m)
         IN  IF d.crashed THEN d ELSE display_token_usage(d)

\* the whole script: lines 23-36, then main(), display_chat_history() and
\* display_token_usage() (lines 220-223)
Script(r, in) ==
    IF ~r.api_key /\ ~secret THEN [r EXCEPT !.crashed = TRUE]
    ELSE LET has_client == r.api_key
             r0 == [r EXCEPT !.api_key = TRUE, !.client = has_client]
             m  == main(r0, in, has_client)
             d  == IF m.crashed THEN m ELSE display_chat_history(m)
         IN  IF d.crashed THEN d ELSE display_token_usage(d)

\* ---------------------------------------------------------------- actions
Init ==
    /\ secret \in BOOLEAN
    /\ api_key = FALSE
    /\ client_defined = FALSE
    /\ chat_history = <<>>
    /\ total_tokens = 0
    /\ context = <<>>
    /\ page = "none"
    /\ uploaded_file = NoFile
    /\ widgets = {}
    /\ rendered = <<>>
    /\ calls = <<>>
    /\ crashed = FALSE
    /\ displayed = <<>>
    /\ history_seen = <<>>
    /\ token_metric = 0
    /\ pressed = "none"
    /\ form = NoForm
    /\ ledger = 0
    /\ last_extracted = <<>>
    /\ n_calls = 0

RECURSIVE SumTokens(_)
SumTokens(cs) ==
    IF cs = <<>> THEN 0 ELSE Head(cs).tokens + SumTokens(Tail(cs))

\* the session state a run starts from, with nothing rendered yet
Session ==
    [api_key |-> api_key, client |-> FALSE, chat_history |-> chat_history,
     total_tokens |-> total_tokens, context |-> context,
     rendered |-> <<>>, widgets |-> {}, extracted |-> <<>>,
     calls |-> <<>>, crashed |-> FALSE,
     displayed |-> <<>>, history_seen |-> <<>>, token_metric |-> 0]

\* One execution of the page's script for the interaction `in`:
\* the file in the uploader, the button reported pressed, the text fields
\* and the service's answer should the run ask for one.
Run(in) ==
    \E r \in {Script(Session, in)} :
        /\ n_calls + Len(r.calls) <= MaxCalls
        /\ in.out = NoOutcome \/ r.calls # <<>>   \* an answer needs a request
        /\ api_key' = r.api_key
        /\ client_defined' = r.client
        /\ chat_history' = r.chat_history
        /\ total_tokens' = r.total_tokens
        /\ context' = r.context
        /\ page' = "D02_Marketing_services"
        /\ uploaded_file' = in.file
        /\ widgets' = r.widgets
        /\ rendered' = r.rendered
        /\ calls' = r.calls
        /\ crashed' = r.crashed
        /\ displayed' = r.displayed
        /\ history_seen' = r.history_seen
        /\ token_metric' = r.token_metric
        /\ pressed' = in.pressed
        /\ form' = in.form
        /\ ledger' = ledger + SumTokens(r.calls)
        /\ last_extracted' = IF r.extracted = <<>> THEN last_extracted
                             ELSE r.extracted[Len(r.extracted)]
        /\ n_calls' = n_calls + Len(r.calls)
        /\ UNCHANGED secret

\* the user opens the page, or the script reruns with no widget changed
\* (widget values do not survive leaving the page)
Visit ==
    \E f \in {IF page = "D02_Marketing_services"
              THEN uploaded_file ELSE NoFile} :
        Run([file |-> f, pressed |-> "none", form |-> NoForm,
             out |-> NoOutcome])

\* the user puts a file into the uploader
Upload ==
    /\ page = "D02_Marketing_services"
    /\ "file_uploader" \in widgets
    /\ \E d \in Docs :
        Run([file |-> d, pressed |-> "none", form |-> NoForm,
             out |-> NoOutcome])

\* the user removes the file from the uploader
RemoveFile ==
    /\ page = "D02_Marketing_services"
    /\ "file_uploader" \in widgets
    /\ uploaded_file # NoFile
    /\ Run([file |-> NoFile, pressed |-> "none", form |-> NoForm,
            out |-> NoOutcome])

\* the user presses a button that the last run rendered
Press(b, forms) ==
    \E f \in forms :
        LET in == [file |-> uploaded_file, pressed |-> b, form |-> f,
                   out |-> NoOutcome]
        IN  \E out \in Outcomes : Run([in EXCEPT !.out = out])

ExtractKeyPoints ==
    /\ page = "D02_Marketing_services"
    /\ "Extract Key Points" \in widgets
    /\ Press("Extract Key Points", KeyPointForms)

GenerateContent ==
    /\ page = "D02_Marketing_services"
    /\ "Generate Content" \in widgets
    /\ Press("Generate Content", GenerateForms)

LocalizeContent ==
    /\ page = "D02_Marketing_services"
    /\ "Localize Content" \in widgets
    /\ Press("Localize Content", LocalizeForms)

\* The user opens another page of the portal: its script runs, the session
\* state is kept, the widgets of the marketing page are gone.
OtherPage(name, elements, failed) ==
    /\ page' = name
    /\ client_defined' = FALSE
    /\ uploaded_file' = NoFile
    /\ widgets' = {}
    /\ rendered' = elements
    /\ calls' = <<>>
    /\ crashed' = failed
    /\ displayed' = <<>>
    /\ history_seen' = <<>>
    /\ token_metric' = 0
    /\ pressed' = "none"
    /\ form' = NoForm
    /\ UNCHANGED <<secret, api_key, chat_history, total_tokens, context,
                   ledger, last_extracted, n_calls>>

\* pages/B_Manufacturing_4o.py does not compile (the parenthesis opened on
\* line 29 is never closed): Streamlit shows the error and runs none of it
OpenManufacturing ==
    /\ page # "B_Manufacturing_4o"
    /\ OtherPage("B_Manufacturing_4o", <<<<"exception", "SyntaxError">>>>,
                 TRUE)

\* pages/C_v003.py, the forecasting dashboard, touches none of the session
\* state of the marketing page
OpenForecasting ==
    /\ page # "C_v003"
    /\ OtherPage("C_v003", <<<<"title", "Customer Turnover Forecasting">>>>,
                 FALSE)

Next ==
    \/ Visit
    \/ Upload
    \/ RemoveFile
    \/ ExtractKeyPoints
    \/ GenerateContent
    \/ LocalizeContent
    \/ OpenManufacturing
    \/ OpenForecasting

Spec == Init /\ [][Next]_vars

\* ================================================================= claims
GC == "Generate Content"
LC == "Localize Content"
EKP == "Extract Key Points"

\* number of elements of kind k rendered by the last run
RECURSIVE CountKind(_, _)
CountKind(els, k) ==
    IF els = <<>> THEN 0
    ELSE (IF Head(els)[1] = k THEN 1 ELSE 0) + CountKind(Tail(els), k)

Shows(els, k, body) == \E i \in 1..Len(els) : els[i] = <<k, body>>

\* the last run asked the completion service and the request failed
CallFailed == calls # <<>> /\ calls[1].failed

\* the last run was a submit that lacked a required field
RejectedGenerate == pressed = GC /\ form.content_prompt = ""
RejectedLocalize ==
    /\ pressed = LC
    /\ \/ form.content_to_localize = ""
       \/ form.target_locale = ""
       \/ form.target_culture = ""

\* ---------------------------------------------------------------------- C1
\* C1: total_tokens equals the sum of the token counts returned by every
\* completion call of the session, each counted once.
C1_TokensMatchCalls == total_tokens = ledger

\* two calls have been made, one of them failed, and tokens were counted
C1_Witness == n_calls >= 2 /\ total_tokens >= 1 /\ CallFailed

\* ---------------------------------------------------------------------- C2
\* C2 (as claimed): the log grows by exactly 1 in a run whose generation or
\* localization call succeeded, and by 0 in every other run (failed call,
\* rejected submit, key-points extraction).
C2_LogGrowsOnlyOnSuccess ==
    [][Len(chat_history') = Len(chat_history)
          + (IF n_calls' > n_calls /\ pressed' \in {GC, LC}
                /\ ~calls'[1].failed THEN 1 ELSE 0)]_vars

\* ---------------------------------------------------------------------- C3
\* C3: a run whose completion request fails is not ended by the error; it
\* shows exactly one failure notice, get_ai_response returns (None, 0), and
\* total_tokens and the stored context are what they were before the run.
C3_FailSoft ==
    [][(n_calls' > n_calls /\ calls'[1].failed) =>
          /\ ~crashed'
          /\ CountKind(rendered', "error") = 1
          /\ Shows(rendered', "error", "An error occurred")
          /\ calls'[1].response = None
          /\ calls'[1].tokens = 0
          /\ total_tokens' = total_tokens
          /\ context' = context]_vars

\* a request failed in a session that already had tokens and a context
C3_Witness == CallFailed /\ ~crashed /\ total_tokens > 0 /\ context # <<>>

\* ---------------------------------------------------------------------- C4
\* C4 (as claimed): after a failed generation or localization call the run
\* renders no "Generated Content:" / "Localized Content:" block.
C4_NoResultBlockOnFailure ==
    (CallFailed /\ pressed \in {GC, LC}) =>
        /\ ~Shows(rendered, "subheader", "Generated Content:")
        /\ ~Shows(rendered, "subheader", "Localized Content:")

\* ---------------------------------------------------------------------- C5
\* C5: a Localize submit with content, locale or culture empty, and a
\* Generate submit with an empty task prompt, make no completion call and
\* leave context, total_tokens and the log as they were; a Generate submit
\* with a task prompt and an empty audience does make its call.
C5_RejectedSubmitIsInert ==
    [][/\ (RejectedGenerate' \/ RejectedLocalize') =>
             /\ calls' = <<>>
             /\ n_calls' = n_calls
             /\ context' = context
             /\ total_tokens' = total_tokens
             /\ chat_history' = chat_history
       /\ (pressed' = GC /\ form'.content_prompt # ""
              /\ form'.target_audience = "") =>
             /\ Len(calls') = 1
             /\ calls'[1].prompt.fields = <<"", form'.content_prompt>>]_vars

\* a Localize submit with only the locale missing was rejected in a session
\* that has a context, tokens and a log
C5_Witness ==
    /\ pressed = LC
    /\ form.content_to_localize # "" /\ form.target_locale = ""
    /\ form.target_culture # ""
    /\ context # <<>> /\ total_tokens > 0 /\ chat_history # <<>>

\* ---------------------------------------------------------------------- C6
\* C6 (as claimed): a submit rejected for a missing required field renders a
\* validation notice in the same run.
C6_RejectedSubmitShowsNotice ==
    (RejectedGenerate \/ RejectedLocalize) =>
        CountKind(rendered, "error") + CountKind(rendered, "warning") >= 1

\* ---------------------------------------------------------------------- C7
\* C7: a run whose uploaded file has an unsupported media type renders the
\* notice, leaves the stored context, total_tokens and the log unchanged,
\* makes no completion call and executes nothing of main after the notice
\* (the run is not ended by an error and renders no button of the page).
C7_UnsupportedIsInert ==
    [][(page' = "D02_Marketing_services"
           /\ uploaded_file' # NoFile
           /\ uploaded_file'.type \notin Supported) =>
          /\ Shows(rendered', "error", "Unsupported file type")
          /\ context' = context
          /\ calls' = <<>>
          /\ n_calls' = n_calls
          /\ total_tokens' = total_tokens
          /\ chat_history' = chat_history
          /\ ~crashed'
          /\ widgets' = {"file_uploader"}]_vars

\* an unsupported file was uploaded in a session with a context and tokens
C7_Witness ==
    /\ uploaded_file # NoFile /\ uploaded_file.type \notin Supported
    /\ Shows(rendered, "error", "Unsupported file type")
    /\ context # <<>> /\ total_tokens > 0 /\ chat_history # <<>>

\* ---------------------------------------------------------------------- C8
\* C8 (as claimed): pressing "Extract Key Points" on a document whose
\* extracted text is empty makes no completion call.
C8_NoKeyPointsOfEmptyText ==
    (pressed = EKP /\ ~crashed /\ context = <<>>) => calls = <<>>

\* ---------------------------------------------------------------------- C9
\* C9: the log is append-only: in every step the log before is a prefix of
\* the log after, and at most one record is added, at the end.
C9_AppendOnly ==
    [][/\ IsPrefix(chat_history, chat_history')
       /\ Len(chat_history') <= Len(chat_history) + 1]_vars

\* the log holds two different records
C9_Witness == Len(chat_history) >= 2 /\ chat_history[1] # chat_history[2]

\* --------------------------------------------------------------------- C10
\* C10: display_chat_history shows one expander per record of the log, the
\* most recent record first, and leaves the log as it found it.
C10_NewestFirst ==
    (page = "D02_Marketing_services" /\ ~crashed) =>
        /\ Len(displayed) = Len(chat_history)
        /\ \A i \in 1..Len(displayed) :
              displayed[i] = Expander(chat_history[Len(chat_history) + 1 - i])
        /\ history_seen = chat_history

\* two different records are on display
C10_Witness ==
    /\ page = "D02_Marketing_services"
    /\ Len(displayed) >= 2 /\ displayed[1] # displayed[2]

\* --------------------------------------------------------------------- C11
\* C11: the stored context is always the text of the session's most recent
\* successful extraction (empty before the first one), also while the
\* uploader holds no file, and a generation prompt carries that context.
C11_ContextIsLatestExtraction ==
    /\ context = last_extracted
    /\ (pressed = GC /\ calls # <<>>) =>
          /\ calls[1].prompt.template = "Generate creative marketing content"
          /\ calls[1].prompt.text = last_extracted

\* a generation prompt was built from a stored context after the file had
\* been taken out of the uploader
C11_Witness ==
    /\ pressed = GC /\ calls # <<>>
    /\ uploaded_file = NoFile
    /\ context # <<>>

\* --------------------------------------------------------------------- C12
\* C12: a run constructs the API client only if api_key was in the session
\* state before it (the run that stores the key constructs none), and every
\* run that calls get_ai_response has constructed the client, so no call
\* returns the sentinel for want of a client.
C12_CallsHaveClient ==
    [][/\ client_defined' => api_key
       /\ (page' = "D02_Marketing_services" /\ ~api_key /\ api_key')
             => ~client_defined'
       /\ calls' # <<>> => client_defined']_vars

\* a completion call was answered in a run that had the client
C12_Witness == calls # <<>> /\ client_defined /\ ~calls[1].failed

====
